---------------------------- MODULE Spec2Model ----------------------------
(*************************************************************************)
(* Verification model of the resario annotation canvas.                  *)
(*                                                                       *)
(*   lib/boxes (src/src/lib/types.ts)  clampBox, scaleDetections         *)
(*   DetectionsCanvas (src/unnamed/part_002)  the drag-enabled canvas:   *)
(*       findBoxAtPosition, handleMouseDown, handleMouseMove,            *)
(*       handleMouseUp, draw and the detections-prop effect              *)
(*                                                                       *)
(* Numbers.  The program computes with JavaScript numbers.  The model    *)
(* computes with exact rationals [n, d] (d > 0, lowest terms), so a      *)
(* product with displayW/naturalW and its reciprocal are the real-number *)
(* operations; IEEE rounding is not modelled.  Scores are compared only, *)
(* and are written in percent (0.5 is 50).                               *)
(*                                                                       *)
(* Indices.  The code's indices are 0-based and are kept 0-based here;   *)
(* At(s, i) reads a TLA+ sequence at a 0-based index.  The value null of *)
(* draggedBox and the -1 of findBoxAtPosition/findIndex are both Null.   *)
(*************************************************************************)
EXTENDS Integers, Sequences, FiniteSets, TLC

\* ----------------------------------------------------------------------
\* Bounds of the model
\* ----------------------------------------------------------------------

\* The pointer is tried this many CSS pixels outside the canvas on each side.
MouseOut == 1

\* clampBox is tried on edges in -ClampOut .. ClampMax + ClampOut.
ClampOut == 1

\* clampBox is tried on widths and heights 0 .. ClampMax.
ClampMax == 2
ScaleMax == 3
MaxPadding == 4
MaxLabelLen == 8
MaxSizeSteps == 8
MaxImages == 2
MaxRequests == 2
MaxUpstream == 2

\* ----------------------------------------------------------------------
\* Exact rational arithmetic
\* ----------------------------------------------------------------------

RECURSIVE GCD(_, _)
GCD(a, b) == IF b = 0 THEN a ELSE GCD(b, a % b)

Abs(i) == IF i < 0 THEN -i ELSE i

\* The rational n/d (d > 0) in lowest terms.
Q(n, d) ==
  LET g == GCD(Abs(n), d)
  IN  [n |-> n \div g, d |-> d \div g]

R(i) == [n |-> i, d |-> 1]

RLe(a, b) == a.n * b.d <= b.n * a.d
RLt(a, b) == a.n * b.d < b.n * a.d
RAdd(a, b) == Q(a.n * b.d + b.n * a.d, a.d * b.d)
RSub(a, b) == Q(a.n * b.d - b.n * a.d, a.d * b.d)
RMul(a, b) == Q(a.n * b.n, a.d * b.d)
\* a / b for b > 0 (every divisor of the canvas is a positive dimension).
RDiv(a, b) == Q(a.n * b.d, a.d * b.n)
\* Math.min, Math.max
RMin(a, b) == IF RLe(a, b) THEN a ELSE b
RMax(a, b) == IF RLe(a, b) THEN b ELSE a

Zero == R(0)

Null == -1

At(s, i) == s[i + 1]

Box(x1, y1, x2, y2) == [xmin |-> R(x1), ymin |-> R(y1), xmax |-> R(x2), ymax |-> R(y2)]

\* ----------------------------------------------------------------------
\* lib/boxes
\* ----------------------------------------------------------------------

clampBoxUnordered(box, w, h) ==
  [xmin |-> RMax(Zero, RMin(box.xmin, w)),
   ymin |-> RMax(Zero, RMin(box.ymin, h)),
   xmax |-> RMax(Zero, RMin(box.xmax, w)),
   ymax |-> RMax(Zero, RMin(box.ymax, h))]

\* The two edges of each axis exchanged instead of ordered.
clampBoxExchanged(box, w, h) ==
  [xmin |-> RMax(Zero, RMin(box.xmax, w)),
   ymin |-> RMax(Zero, RMin(box.ymax, h)),
   xmax |-> RMax(Zero, RMin(box.xmin, w)),
   ymax |-> RMax(Zero, RMin(box.ymin, h))]

clampBox(box, w, h) ==
  LET xmin == RMax(Zero, RMin(box.xmin, w))
      ymin == RMax(Zero, RMin(box.ymin, h))
      xmax == RMax(Zero, RMin(box.xmax, w))
      ymax == RMax(Zero, RMin(box.ymax, h))
  IN  [xmin |-> RMin(xmin, xmax),
       ymin |-> RMin(ymin, ymax),
       xmax |-> RMax(xmin, xmax),
       ymax |-> RMax(ymin, ymax)]

\* The scaled detections in reverse order.
scaleDetectionsReversed(dets, naturalW, naturalH, displayW, displayH) ==
  LET sx == RDiv(displayW, naturalW)
      sy == RDiv(displayH, naturalH)
  IN  [i \in 1..Len(dets) |->
         LET d == dets[Len(dets) + 1 - i]
             b == clampBox(d.box, naturalW, naturalH)
         IN  [d EXCEPT !.box =
                [xmin |-> RMul(b.xmin, sx),
                 ymin |-> RMul(b.ymin, sy),
                 xmax |-> RMul(b.xmax, sx),
                 ymax |-> RMul(b.ymax, sy)]]]

\* Both axes scaled by the horizontal factor.
scaleDetectionsUniform(dets, naturalW, naturalH, displayW, displayH) ==
  LET sx == RDiv(displayW, naturalW)
  IN  [i \in 1..Len(dets) |->
         LET b == clampBox(dets[i].box, naturalW, naturalH)
         IN  [dets[i] EXCEPT !.box =
                [xmin |-> RMul(b.xmin, sx),
                 ymin |-> RMul(b.ymin, sx),
                 xmax |-> RMul(b.xmax, sx),
                 ymax |-> RMul(b.ymax, sx)]]]

\* dets.map(d => ({...d, box: clampBox(d.box) * (sx, sy)}))
scaleDetections(dets, naturalW, naturalH, displayW, displayH) ==
  LET sx == RDiv(displayW, naturalW)
      sy == RDiv(displayH, naturalH)
  IN  [i \in 1..Len(dets) |->
         LET b == clampBox(dets[i].box, naturalW, naturalH)
         IN  [dets[i] EXCEPT !.box =
                [xmin |-> RMul(b.xmin, sx),
                 ymin |-> RMul(b.ymin, sy),
                 xmax |-> RMul(b.xmax, sx),
                 ymax |-> RMul(b.ymax, sy)]]]


\* ----------------------------------------------------------------------
\* Inputs of the canvas
\* ----------------------------------------------------------------------

Det(id, label, score, box) == [id |-> id, label |-> label, score |-> score, box |-> box]

\* The detection lists a parent can pass as the detections prop, in natural
\* coordinates.  id stands for the reference of the object in a list slot:
\* every list a parent passes is made of distinct objects, the code compares
\* references only inside one handler call, and a spread ({...d, box})
\* carries every other field over.
\*   - the empty list;
\*   - a detection below every threshold in front of a visible one;
\*   - two boxes that touch in one point, the second visible at 0.3 only;
\*   - one box with inverted and out-of-range edges, score exactly 0.3.
DetectionLists ==
  { << >>,
    << Det(1, "cat", 20, Box(0, 0, 4, 4)), Det(2, "dog", 80, Box(2, 2, 4, 4)) >>,
    << Det(1, "cat", 80, Box(0, 0, 2, 2)), Det(2, "cat", 40, Box(2, 2, 4, 4)) >>,
    << Det(1, "dog", 30, Box(6, 2, 2, -2)) >> }

\* The other props a parent mounts the canvas with: naturalWidth,
\* naturalHeight, displayWidth, displayHeight (all positive) and
\* scoreThreshold (the 0.3 the results view passes, the default 0.5).
CanvasProps ==
  { [nw |-> R(4), nh |-> R(4), dw |-> R(2), dh |-> R(2), threshold |-> 30],
    [nw |-> R(3), nh |-> R(2), dw |-> R(2), dh |-> R(2), threshold |-> 50] }

Ceil(q) == -((-q.n) \div q.d)

Origin == [x |-> Zero, y |-> Zero]

\* ----------------------------------------------------------------------
\* State of DetectionsCanvas
\* ----------------------------------------------------------------------

VARIABLES
  naturalWidth, naturalHeight, displayWidth, displayHeight,  \* props
  scoreThreshold,                                            \* prop
  detections,                                                \* prop
  localDetections,   \* useState: the editable copy
  draggedBox,        \* useState: index in the filtered list, or Null
  dragOffset,        \* useState: {x, y}
  \* what the last handler did, as seen from outside the component
  event,             \* the handler that ran last
  mousePos,          \* its result of getMousePos (Origin when it did not ask)
  boxIndex,          \* its result of findBoxAtPosition (Null when it did not ask)
  grabbed,           \* id of the detection the open drag session grabbed
  newBox,            \* << the display box it computed as newBox >>
  movedIndex,        \* the originalIndex whose entry it replaced, or Null
  updates,           \* its onDetectionUpdate calls, in order
  painted,           \* what the last draw() stroked, in order
  droppedEdits,      \* it replaced a local copy that drags had changed
  \* the draw closure the ResizeObserver effect captured, when it is tracked
  observer,          \* << [detections, draggedBox] >> of that render, or << >>
  \* a library function applied on its own
  calc,              \* [fn, args, result]: result is << >> until it is applied
  \* ImageUpload
  selectedImage,     \* useState: the chosen file, or Null
  requests,          \* the detectObjects calls that passed the guard, in order
  \* Home
  detectionResults,  \* useState: [request, image, n], n detections
  originalImage,     \* useState: the image of the response, or Null for ""
  isLoading,         \* useState
  \* ObjectDetectionResults, while Home renders it
  imageDimensions,   \* useState: {width, height}
  displayDimensions, \* useState: {width, height}
  loads,             \* the Image objects of the load effect that have not fired
  effectPending,     \* the effect on imageDimensions has yet to run
  hostEvent,         \* the handler of the page that ran last
  \* POST /api/detect
  route              \* one invocation of the route handler

canvasVars ==
  << naturalWidth, naturalHeight, displayWidth, displayHeight, scoreThreshold,
     detections, localDetections, draggedBox, dragOffset, event, mousePos,
     boxIndex, grabbed, newBox, movedIndex, updates, painted, droppedEdits >>

hostVars ==
  << selectedImage, requests, detectionResults, originalImage, isLoading,
     imageDimensions, displayDimensions, loads, effectPending, hostEvent >>

vars == << canvasVars, calc, observer, hostVars, route >>

\* Pointer positions in CSS pixels relative to the canvas (getMousePos): the
\* diagonal from MouseOut pixels before the top-left corner to MouseOut pixels
\* past the bottom-right one, and the top-right corner of the canvas.
MousePositions ==
  { [x |-> R(k), y |-> R(k)] :
      k \in (0 - MouseOut) .. (Ceil(displayWidth) + MouseOut) }
  \cup { [x |-> R(Ceil(displayWidth)), y |-> Zero] }

Visible(d) == d.score >= scoreThreshold

Contains(box, x, y) ==
  /\ RLe(box.xmin, x) /\ RLe(x, box.xmax)
  /\ RLe(box.ymin, y) /\ RLe(y, box.ymax)

\* ----------------------------------------------------------------------
\* findBoxAtPosition
\* ----------------------------------------------------------------------

HitScaled(dets) ==
  SelectSeq(scaleDetections(dets, naturalWidth, naturalHeight,
                            displayWidth, displayHeight), Visible)

RECURSIVE HitLoopUp(_, _, _, _)
HitLoopUp(scaled, i, x, y) ==
  IF i >= Len(scaled) THEN Null
  ELSE IF Contains(At(scaled, i).box, x, y) THEN i
  ELSE HitLoopUp(scaled, i + 1, x, y)

findBoxAtPositionFirst(x, y) ==
  HitLoopUp(HitScaled(localDetections), 0, x, y)

RECURSIVE HitLoop(_, _, _, _)
HitLoop(scaled, i, x, y) ==
  IF i < 0 THEN Null
  ELSE IF Contains(At(scaled, i).box, x, y) THEN i
  ELSE HitLoop(scaled, i - 1, x, y)

findBoxAtPosition(x, y) ==
  LET scaled == HitScaled(localDetections)
  IN  HitLoop(scaled, Len(scaled) - 1, x, y)

\* ----------------------------------------------------------------------
\* draw
\* ----------------------------------------------------------------------

DrawScaledStrict(dets, t) ==
  SelectSeq(scaleDetections(dets, naturalWidth, naturalHeight,
                            displayWidth, displayHeight),
            LAMBDA d : d.score > t)

DrawScaled(dets, t) ==
  SelectSeq(scaleDetections(dets, naturalWidth, naturalHeight,
                            displayWidth, displayHeight),
            LAMBDA d : d.score >= t)

\* scaled.forEach((d, index) => strokeRect ... isDragging = draggedBox === index)
draw(dets, dragged) ==
  LET scaled == DrawScaled(dets, scoreThreshold)
  IN  [i \in 1..Len(scaled) |->
         [id |-> scaled[i].id, label |-> scaled[i].label,
          score |-> scaled[i].score, box |-> scaled[i].box,
          isDragging |-> (dragged = i - 1)]]

\* ----------------------------------------------------------------------
\* handleMouseDown
\* ----------------------------------------------------------------------

\* The same call with the filter left out: the box is read from the full list.
GrabbedScaledUnfiltered(i) ==
  At(scaleDetections(localDetections, naturalWidth, naturalHeight,
                     displayWidth, displayHeight), i)

\* scaled[boxIndex] of handleMouseDown: a second scale-and-filter of the list.
GrabbedScaled(i) ==
  At(SelectSeq(scaleDetections(localDetections, naturalWidth, naturalHeight,
                               displayWidth, displayHeight), Visible), i)

MouseDown(p) ==
  LET hit == findBoxAtPosition(p.x, p.y)
  IN  /\ event' = "mousedown"
      /\ mousePos' = p
      /\ boxIndex' = hit
      /\ IF hit # Null
           THEN LET d == GrabbedScaled(hit)
                IN  /\ draggedBox' = hit
                    /\ dragOffset' = [x |-> RSub(p.x, d.box.xmin),
                                      y |-> RSub(p.y, d.box.ymin)]
                    /\ grabbed' = d.id
           ELSE UNCHANGED << draggedBox, dragOffset, grabbed >>
      /\ newBox' = << >>
      /\ movedIndex' = Null
      /\ updates' = << >>
      /\ droppedEdits' = FALSE
      /\ painted' = draw(localDetections, draggedBox')
      /\ UNCHANGED << naturalWidth, naturalHeight, displayWidth, displayHeight,
                      scoreThreshold, detections, localDetections, calc, observer, hostVars, route >>

\* ----------------------------------------------------------------------
\* handleMouseMove
\* ----------------------------------------------------------------------

\* localDetections.findIndex(d => d === det)
RECURSIVE FindIndexFrom(_, _, _)
FindIndexFrom(dets, det, i) ==
  IF i >= Len(dets) THEN Null
  ELSE IF At(dets, i).id = det.id THEN i
  ELSE FindIndexFrom(dets, det, i + 1)

\* The filtered index used as an index of the full list.
OriginalIndexDirect(dets, k) == k

\* filteredDetections[k] looked up in the full list by reference.
OriginalIndex(dets, k) ==
  FindIndexFrom(dets, At(SelectSeq(dets, Visible), k), 0)

DragNewBoxUnclamped(box, newX, newY) ==
  LET width == RSub(box.xmax, box.xmin)
      height == RSub(box.ymax, box.ymin)
  IN  [xmin |-> newX,
       ymin |-> newY,
       xmax |-> RAdd(newX, width),
       ymax |-> RAdd(newY, height)]

\* newBox of handleMouseMove, from the dragged detection's scaled box.
\* The box left where it is.
DragNewBoxStill(box, newX, newY) == box

DragNewBox(box, newX, newY) ==
  LET width == RSub(box.xmax, box.xmin)
      height == RSub(box.ymax, box.ymin)
  IN  [xmin |-> RMax(Zero, RMin(newX, RSub(displayWidth, width))),
       ymin |-> RMax(Zero, RMin(newY, RSub(displayHeight, height))),
       xmax |-> RMax(Zero, RMin(RAdd(newX, width), displayWidth)),
       ymax |-> RMax(Zero, RMin(RAdd(newY, height), displayHeight))]

\* The display box times the forward factors once more.
ToNaturalForward(box) ==
  LET scaleX == RDiv(displayWidth, naturalWidth)
      scaleY == RDiv(displayHeight, naturalHeight)
  IN  [xmin |-> RMul(box.xmin, scaleX),
       ymin |-> RMul(box.ymin, scaleY),
       xmax |-> RMul(box.xmax, scaleX),
       ymax |-> RMul(box.ymax, scaleY)]

\* The reciprocal factors of the two axes exchanged.
ToNaturalSwapped(box) ==
  LET scaleX == RDiv(naturalWidth, displayWidth)
      scaleY == RDiv(naturalHeight, displayHeight)
  IN  [xmin |-> RMul(box.xmin, scaleY),
       ymin |-> RMul(box.ymin, scaleX),
       xmax |-> RMul(box.xmax, scaleY),
       ymax |-> RMul(box.ymax, scaleX)]

\* The display box times the reciprocal factors.
ToNatural(box) ==
  LET scaleX == RDiv(naturalWidth, displayWidth)
      scaleY == RDiv(naturalHeight, displayHeight)
  IN  [xmin |-> RMul(box.xmin, scaleX),
       ymin |-> RMul(box.ymin, scaleY),
       xmax |-> RMul(box.xmax, scaleX),
       ymax |-> RMul(box.ymax, scaleY)]

\* The copy is taken of the filtered list instead of the full list.
ReplaceBoxInFiltered(dets, i, box) ==
  SelectSeq([dets EXCEPT ![i + 1].box = box], Visible)

\* updatedDetections: a copy of the list with entry i's box replaced.
ReplaceBox(dets, i, box) == [dets EXCEPT ![i + 1].box = box]

MouseMove(p) ==
  /\ event' = "mousemove"
  /\ IF draggedBox = Null
       THEN \* early return, before getMousePos
            /\ newBox' = << >>
            /\ movedIndex' = Null
            /\ updates' = << >>
            /\ mousePos' = Origin
            /\ UNCHANGED localDetections
       ELSE LET newX == RSub(p.x, dragOffset.x)
                newY == RSub(p.y, dragOffset.y)
                filteredDetections == SelectSeq(localDetections, Visible)
            IN  /\ mousePos' = p
                /\ IF draggedBox < Len(filteredDetections)
                     THEN LET draggedDetection == At(filteredDetections, draggedBox)
                              originalIndex == OriginalIndex(localDetections, draggedBox)
                          IN  IF originalIndex # Null
                                THEN LET scaled == At(scaleDetections(
                                                        << draggedDetection >>,
                                                        naturalWidth, naturalHeight,
                                                        displayWidth, displayHeight), 0)
                                         nb == DragNewBox(scaled.box, newX, newY)
                                         updatedDetections ==
                                           ReplaceBox(localDetections, originalIndex,
                                                      ToNatural(nb))
                                     IN  /\ newBox' = << nb >>
                                         /\ movedIndex' = originalIndex
                                         /\ localDetections' = updatedDetections
                                         /\ updates' = << updatedDetections >>
                                ELSE /\ newBox' = << >>
                                     /\ movedIndex' = Null
                                     /\ updates' = << >>
                                     /\ UNCHANGED localDetections
                     ELSE /\ newBox' = << >>
                          /\ movedIndex' = Null
                          /\ updates' = << >>
                          /\ UNCHANGED localDetections
  /\ boxIndex' = Null
  /\ droppedEdits' = FALSE
  /\ painted' = draw(localDetections', draggedBox)
  /\ UNCHANGED << naturalWidth, naturalHeight, displayWidth, displayHeight,
                  scoreThreshold, detections, draggedBox, dragOffset, grabbed,
                  calc, observer, hostVars, route >>

\* ----------------------------------------------------------------------
\* handleMouseUp (onMouseUp and onMouseLeave)
\* ----------------------------------------------------------------------

\* A release that puts the boxes back where the detections prop has them.
ReleasedDetectionsReverted == detections

\* The list after a release: handleMouseUp sets the drag session only.
ReleasedDetections == localDetections

handleMouseUp(name) ==
  /\ event' = name
  /\ draggedBox' = Null
  /\ dragOffset' = Origin
  /\ localDetections' = ReleasedDetections
  /\ grabbed' = Null
  /\ newBox' = << >>
  /\ movedIndex' = Null
  /\ updates' = << >>
  /\ mousePos' = Origin
  /\ boxIndex' = Null
  /\ droppedEdits' = FALSE
  /\ painted' = draw(localDetections', Null)
  /\ UNCHANGED << naturalWidth, naturalHeight, displayWidth, displayHeight,
                  scoreThreshold, detections, calc, observer, hostVars, route >>

MouseUp == handleMouseUp("mouseup")

MouseLeave == handleMouseUp("mouseleave")

\* ----------------------------------------------------------------------
\* The parent passes a new detections prop
\* ----------------------------------------------------------------------

\* A copy that is taken again only when the number of detections changes.
AdoptedDetectionsByLength(dets) ==
  IF Len(dets) = Len(localDetections) THEN localDetections ELSE dets

\* useEffect(() => setLocalDetections(detections), [detections])
AdoptedDetections(dets) == dets

\* The effect of a new detections prop, named by the event that brought it.
\* The drag session is left as it is; no entry of the new list has been
\* grabbed.
ReceiveDetections(name, dets) ==
  /\ event' = name
  /\ detections' = dets
  /\ localDetections' = AdoptedDetections(dets)
  /\ droppedEdits' = (localDetections # detections)
  /\ grabbed' = Null
  /\ newBox' = << >>
  /\ movedIndex' = Null
  /\ updates' = << >>
  /\ mousePos' = Origin
  /\ boxIndex' = Null
  /\ painted' = draw(localDetections', draggedBox)
  /\ UNCHANGED << naturalWidth, naturalHeight, displayWidth, displayHeight,
                  scoreThreshold, draggedBox, dragOffset, calc, observer, hostVars, route >>

SetDetections(dets) == ReceiveDetections("detections", dets)

\* ----------------------------------------------------------------------
\* The canvas
\* ----------------------------------------------------------------------

NoCalc == [fn |-> "none", args |-> << >>, result |-> << >>]

NoResults == [request |-> Null, image |-> Null, n |-> 0]

NoSize == [width |-> Zero, height |-> Zero]

\* Home, ImageUpload and ObjectDetectionResults after their first render
HomeMount ==
  /\ selectedImage = Null
  /\ requests = << >>
  /\ detectionResults = NoResults
  /\ originalImage = Null
  /\ isLoading = FALSE
  /\ imageDimensions = NoSize
  /\ displayDimensions = NoSize
  /\ loads = {}
  /\ effectPending = FALSE
  /\ hostEvent = "mount"

\* no request has reached the route
NoRoute == [stage |-> "none"]

\* The component after its first render with the given props.
Mount(props, dets) ==
  /\ naturalWidth = props.nw
  /\ naturalHeight = props.nh
  /\ displayWidth = props.dw
  /\ displayHeight = props.dh
  /\ scoreThreshold = props.threshold
  /\ detections = dets
  /\ localDetections = detections
  /\ draggedBox = Null
  /\ dragOffset = Origin
  /\ event = "mount"
  /\ mousePos = Origin
  /\ boxIndex = Null
  /\ grabbed = Null
  /\ newBox = << >>
  /\ movedIndex = Null
  /\ updates = << >>
  /\ droppedEdits = FALSE
  /\ painted = draw(localDetections, draggedBox)

Init ==
  /\ \E props \in CanvasProps : \E dets \in DetectionLists : Mount(props, dets)
  /\ calc = NoCalc
  /\ observer = << >>
  /\ HomeMount
  /\ route = NoRoute

Next ==
  \/ \E p \in MousePositions : MouseDown(p)
  \/ \E p \in MousePositions : MouseMove(p)
  \/ MouseUp
  \/ MouseLeave
  \/ \E dets \in DetectionLists : SetDetections(dets)

Spec == Init /\ [][Next]_vars

\* ----------------------------------------------------------------------
\* The canvas as Home and ObjectDetectionResults mount it, between two
\* detection results
\* ----------------------------------------------------------------------

\* scoreThreshold={0.3}
HostedThreshold == 30

\* Home renders the results only when there is at least one.
InitHosted ==
  /\ \E props \in CanvasProps : \E dets \in DetectionLists :
       /\ props.threshold = HostedThreshold
       /\ Len(dets) > 0
       /\ Mount(props, dets)
       \* the draw of the first render, kept by the ResizeObserver effect
       /\ observer = << [localDetections |-> dets, draggedBox |-> Null] >>
  /\ calc = NoCalc
  /\ HomeMount
  /\ route = NoRoute

\* Home renders again with the results it has (setIsLoading): the results
\* are mapped to a new array of the same detections, and the effect on the
\* detections prop runs.
Rerender == ReceiveDetections("rerender", detections)

\* The ResizeObserver callback: the draw it was created with.
Resize ==
  /\ observer # << >>
  /\ event' = "resize"
  /\ painted' = draw(observer[1].localDetections, observer[1].draggedBox)
  /\ grabbed' = Null
  /\ newBox' = << >>
  /\ movedIndex' = Null
  /\ updates' = << >>
  /\ mousePos' = Origin
  /\ boxIndex' = Null
  /\ droppedEdits' = FALSE
  /\ UNCHANGED << naturalWidth, naturalHeight, displayWidth, displayHeight,
                  scoreThreshold, detections, localDetections, draggedBox,
                  dragOffset, calc, observer, hostVars, route >>

NextHosted ==
  \/ \E p \in MousePositions : MouseDown(p)
  \/ \E p \in MousePositions : MouseMove(p)
  \/ MouseUp
  \/ MouseLeave
  \/ Rerender
  \/ Resize

SpecHosted == InitHosted /\ [][NextHosted]_vars

\* ----------------------------------------------------------------------
\* clampBox applied on its own
\* ----------------------------------------------------------------------

ClampEdges == (0 - ClampOut) .. (ClampMax + ClampOut)

ClampInputs ==
  { [box |-> Box(e[1], e[2], e[3], e[4]), w |-> R(w), h |-> R(h)] :
      e \in ClampEdges \X ClampEdges \X ClampEdges \X ClampEdges,
      w \in 0 .. ClampMax, h \in 0 .. ClampMax }

InitClamp ==
  /\ Mount(CHOOSE props \in CanvasProps : props.threshold = 50, << >>)
  /\ \E a \in ClampInputs : calc = [fn |-> "clampBox", args |-> a, result |-> << >>]
  /\ observer = << >>
  /\ HomeMount
  /\ route = NoRoute

ApplyClamp ==
  /\ calc.fn = "clampBox"
  /\ calc.result = << >>
  /\ calc' = [calc EXCEPT !.result = << clampBox(calc.args.box, calc.args.w, calc.args.h) >>]
  /\ UNCHANGED << canvasVars, observer, hostVars, route >>

\* clampBox applied to its own result, with the same width and height.
ReapplyClamp ==
  /\ calc.fn = "clampBox"
  /\ Len(calc.result) = 1
  /\ calc' = [calc EXCEPT !.result =
                Append(@, clampBox(calc.result[1], calc.args.w, calc.args.h))]
  /\ UNCHANGED << canvasVars, observer, hostVars, route >>

NextClamp == ApplyClamp \/ ReapplyClamp

SpecClamp == InitClamp /\ [][NextClamp]_vars

\* ----------------------------------------------------------------------
\* scaleDetections and the inverse mapping of the drag handler, applied to
\* bounded inputs
\* ----------------------------------------------------------------------
ScaleSizes == { R(k) : k \in 1..ScaleMax }

\* natural 1000x800 shown at 500x400
ScenarioProps ==
  [nw |-> R(1000), nh |-> R(800), dw |-> R(500), dh |-> R(400), threshold |-> 30]

ScenarioDetections == << Det(1, "cat", 90, Box(100, 100, 300, 300)) >>

ScaleInputs ==
  { [dets |-> dets, nw |-> nw, nh |-> nh, dw |-> dw, dh |-> dh] :
      dets \in DetectionLists, nw \in ScaleSizes, nh \in ScaleSizes,
      dw \in ScaleSizes, dh \in ScaleSizes }
  \cup { [dets |-> ScenarioDetections, nw |-> ScenarioProps.nw,
          nh |-> ScenarioProps.nh, dw |-> ScenarioProps.dw,
          dh |-> ScenarioProps.dh] }

\* The canvas is mounted with the same dimensions, so that its reciprocal
\* factors are those of the call.
InitScale ==
  /\ \E a \in ScaleInputs :
       /\ Mount([nw |-> a.nw, nh |-> a.nh, dw |-> a.dw, dh |-> a.dh,
                 threshold |-> ScenarioProps.threshold], a.dets)
       /\ calc = [fn |-> "scaleDetections", args |-> a, result |-> << >>]
  /\ observer = << >>
  /\ HomeMount
  /\ route = NoRoute

ApplyScale ==
  /\ calc.fn = "scaleDetections"
  /\ calc.result = << >>
  /\ calc' = [calc EXCEPT !.result =
                << scaleDetections(calc.args.dets, calc.args.nw, calc.args.nh,
                                   calc.args.dw, calc.args.dh) >>]
  /\ UNCHANGED << canvasVars, observer, hostVars, route >>

\* The scaled boxes taken back to natural space as handleMouseMove does.
ApplyToNatural ==
  /\ calc.fn = "scaleDetections"
  /\ Len(calc.result) = 1
  /\ calc' = [calc EXCEPT !.result =
                Append(@, [i \in 1..Len(calc.result[1]) |->
                             ToNatural(calc.result[1][i].box)])]
  /\ UNCHANGED << canvasVars, observer, hostVars, route >>

NextScale == ApplyScale \/ ApplyToNatural

SpecScale == InitScale /\ [][NextScale]_vars

\* ----------------------------------------------------------------------
\* The y-position of the label of every drawn detection, in the three
\* variants of the canvas
\* ----------------------------------------------------------------------

\* pillH = 32 + padding * 2; pillY = Math.max(0, ymin - pillH)
DraggablePillY(ymin, padding) ==
  RMax(Zero, RSub(ymin, R(32 + padding * 2)))

\* pillH = 16 + padding * 2; pillY = Math.max(0, ymin - pillH)
StaticPillY(ymin, padding) ==
  RMax(Zero, RSub(ymin, R(16 + padding * 2)))

\* labelHeight = 20; fillRect(xmin, ymin - labelHeight - padding, ...)
SimpleLabelY(ymin, padding) ==
  RSub(RSub(ymin, R(20)), R(padding))

Variants == { "draggable", "static", "simple" }

PillY(variant, ymin, padding) ==
  CASE variant = "draggable" -> DraggablePillY(ymin, padding)
    [] variant = "static" -> StaticPillY(ymin, padding)
    [] variant = "simple" -> SimpleLabelY(ymin, padding)

\* scaled.forEach(...) of draw: the y of the label of each drawn detection
PillYs(variant, dets, padding) ==
  LET scaled == DrawScaled(dets, scoreThreshold)
  IN  [i \in 1..Len(scaled) |-> PillY(variant, scaled[i].box.ymin, padding)]

PillInputs ==
  { [variant |-> v, props |-> c[1], dets |-> c[2], padding |-> pad] :
      v \in Variants,
      c \in (CanvasProps \X DetectionLists)
               \cup { << ScenarioProps, ScenarioDetections >> },
      pad \in 0..MaxPadding }

InitPill ==
  /\ \E a \in PillInputs :
       /\ Mount(a.props, a.dets)
       /\ calc = [fn |-> "draw", args |-> a, result |-> << >>]
  /\ observer = << >>
  /\ HomeMount
  /\ route = NoRoute

ApplyPill ==
  /\ calc.fn = "draw"
  /\ calc.result = << >>
  /\ calc' = [calc EXCEPT !.result =
                << PillYs(calc.args.variant, calc.args.dets, calc.args.padding) >>]
  /\ UNCHANGED << canvasVars, observer, hostVars, route >>

NextPill == ApplyPill

SpecPill == InitPill /\ [][NextPill]_vars

\* ----------------------------------------------------------------------
\* colorForLabel
\* ----------------------------------------------------------------------

\* A JavaScript number that holds an integer, as hi * 2^16 + lo with
\* 0 <= lo < 2^16, so that no intermediate value leaves the range of the
\* integers of the model.
Limb == 65536

Num(hi, lo) == [hi |-> hi + (lo \div Limb), lo |-> lo % Limb]

\* hash << 5: ToInt32 of the operand, shifted, kept to 32 bits, signed
Shl5(h) ==
  LET lo32 == h.lo * 32
      hi32 == ((h.hi % Limb) * 32 + (lo32 \div Limb)) % Limb
  IN  [hi |-> IF hi32 >= Limb \div 2 THEN hi32 - Limb ELSE hi32,
       lo |-> lo32 % Limb]

\* (hash << 5) - hash + label.charCodeAt(i): the subtraction and the addition
\* are those of numbers and do not wrap
HashStep(h, c) ==
  LET s == Shl5(h)
  IN  Num(s.hi - h.hi, s.lo - h.lo + c)

RECURSIVE HashFrom(_, _, _)
HashFrom(label, i, h) ==
  IF i >= Len(label) THEN h
  ELSE HashFrom(label, i + 1, HashStep(h, At(label, i)))

HashOf(label) == HashFrom(label, 0, Num(0, 0))

\* v mod 360 for v = hi * 2^16 + lo, between 0 and 359
Mod360(h) == ((h.hi % 360) * (Limb % 360) + h.lo) % 360

\* hash % 360 of JavaScript: the remainder has the sign of the dividend
Rem360(h) ==
  IF h.hi < 0 THEN -((360 - Mod360(h)) % 360) ELSE Mod360(h)

\* The hue taken without Math.abs.
colorForLabelSigned(label) ==
  [hue |-> Rem360(HashOf(label)), saturation |-> 90, lightness |-> 45]

\* `hsl(${Math.abs(hash) % 360} 90% 45%)`
colorForLabel(label) ==
  LET hash == HashOf(label)
      hue == IF hash.hi < 0 THEN (360 - Mod360(hash)) % 360 ELSE Mod360(hash)
  IN  [hue |-> hue, saturation |-> 90, lightness |-> 45]

\* char codes of 'a', 'z' and of a character outside ASCII
CharCodes == { 97, 122, 9731 }

RECURSIVE LabelsOfLen(_)
LabelsOfLen(n) ==
  IF n = 0 THEN { << >> }
  ELSE { Append(l, c) : l \in LabelsOfLen(n - 1), c \in CharCodes }

Labels == UNION { LabelsOfLen(n) : n \in 0..MaxLabelLen }

InitColor ==
  /\ Mount(CHOOSE props \in CanvasProps : props.threshold = 50, << >>)
  /\ \E l \in Labels :
       calc = [fn |-> "colorForLabel", args |-> [label |-> l], result |-> << >>]
  /\ observer = << >>
  /\ HomeMount
  /\ route = NoRoute

ApplyColor ==
  /\ calc.fn = "colorForLabel"
  /\ calc.result = << >>
  /\ calc' = [calc EXCEPT !.result = << colorForLabel(calc.args.label) >>]
  /\ UNCHANGED << canvasVars, observer, hostVars, route >>

NextColor == ApplyColor

SpecColor == InitColor /\ [][NextColor]_vars

\* ----------------------------------------------------------------------
\* The display size ObjectDetectionResults computes from the natural size
\* ----------------------------------------------------------------------
maxWidth == 1000
maxHeight == 750

Size(w, h) == [width |-> w, height |-> h]

\* The height limited without the width being computed again.
DisplaySizeHeightOnly(dims) ==
  LET aspectRatio == RDiv(dims.height, dims.width)
      displayWidth0 == RMin(R(maxWidth), dims.width)
      displayHeight0 == RMul(displayWidth0, aspectRatio)
  IN  IF RLt(R(maxHeight), displayHeight0)
        THEN Size(displayWidth0, R(maxHeight))
        ELSE Size(displayWidth0, displayHeight0)

\* The body of the effect on imageDimensions, for positive dimensions.
DisplaySize(dims) ==
  LET aspectRatio == RDiv(dims.height, dims.width)
      displayWidth0 == RMin(R(maxWidth), dims.width)
      displayHeight0 == RMul(displayWidth0, aspectRatio)
  IN  IF RLt(R(maxHeight), displayHeight0)
        THEN Size(RDiv(R(maxHeight), aspectRatio), R(maxHeight))
        ELSE Size(displayWidth0, displayHeight0)

\* natural sizes in steps of 250 pixels, and a single pixel
SizeStep == 250

NaturalSides == { R(1) } \cup { R(k * SizeStep) : k \in 1..MaxSizeSteps }

InitDisplay ==
  /\ Mount(CHOOSE props \in CanvasProps : props.threshold = 50, << >>)
  /\ \E w \in NaturalSides : \E h \in NaturalSides :
       calc = [fn |-> "displaySize", args |-> Size(w, h), result |-> << >>]
  /\ observer = << >>
  /\ HomeMount
  /\ route = NoRoute

ApplyDisplay ==
  /\ calc.fn = "displaySize"
  /\ calc.result = << >>
  /\ calc' = [calc EXCEPT !.result = << DisplaySize(calc.args) >>]
  /\ UNCHANGED << canvasVars, observer, hostVars, route >>

NextDisplay == ApplyDisplay

SpecDisplay == InitDisplay /\ [][NextDisplay]_vars

\* ----------------------------------------------------------------------
\* The page: Home with ImageUpload and ObjectDetectionResults
\* ----------------------------------------------------------------------

\* the files the user can choose
ImageFiles == 1..MaxImages

\* The natural size of the processed image the route returns for a file: a
\* JPEG that fits 512x512.
ProcessedSizes ==
  << Size(R(512), R(384)), Size(R(384), R(512)),
     Size(R(512), R(256)), Size(R(256), R(512)) >>

ProcessedSize(img) == ProcessedSizes[((img - 1) % Len(ProcessedSizes)) + 1]

\* how a request ends: an OK response with a readable body, a non-OK
\* response, a rejected fetch, an OK response whose body does not parse
Outcomes == { "ok", "notok", "throw", "badbody" }

\* the number of detections of an OK response
DetectionCounts == { 0, 2 }

\* {detectionResults.length > 0 && originalImage && <ObjectDetectionResults/>}
Mounted == detectionResults.n > 0 /\ originalImage # Null

\* The canvas shown as soon as the natural width is known.
RendersCanvasUnguarded == Mounted /\ RLt(Zero, imageDimensions.width)

\* {imageDimensions.width > 0 && displayDimensions.width > 0 && <DetectionsCanvas/>}
RendersCanvas ==
  /\ Mounted
  /\ RLt(Zero, imageDimensions.width)
  /\ RLt(Zero, displayDimensions.width)

\* handleFile with an image file
SelectFile(img) ==
  /\ ~effectPending
  /\ selectedImage' = img
  /\ hostEvent' = "select"
  /\ UNCHANGED << requests, detectionResults, originalImage, isLoading,
                  imageDimensions, displayDimensions, loads, effectPending >>
  /\ UNCHANGED << canvasVars, calc, observer, route >>

RemoveImage ==
  /\ ~effectPending
  /\ selectedImage # Null
  /\ selectedImage' = Null
  /\ hostEvent' = "remove"
  /\ UNCHANGED << requests, detectionResults, originalImage, isLoading,
                  imageDimensions, displayDimensions, loads, effectPending >>
  /\ UNCHANGED << canvasVars, calc, observer, route >>

\* detectObjects up to its await: the guard, onLoadingChange(true), fetch
DetectObjects ==
  /\ ~effectPending
  /\ IF selectedImage = Null
       THEN /\ hostEvent' = "alert"
            /\ UNCHANGED << requests, isLoading >>
       ELSE /\ Len(requests) < MaxRequests
            /\ hostEvent' = "detect"
            /\ requests' = Append(requests,
                              [image |-> selectedImage, status |-> "pending",
                               outcome |-> "none", completions |-> 0,
                               reports |-> << TRUE >>])
            /\ isLoading' = TRUE
  /\ UNCHANGED << selectedImage, detectionResults, originalImage,
                  imageDimensions, displayDimensions, loads, effectPending >>
  /\ UNCHANGED << canvasVars, calc, observer, route >>

\* onDetectionComplete is called also for an OK response without a readable
\* body.
CompletesUnlessRejected(outcome) == outcome \in { "ok", "badbody" }

\* onDetectionComplete is reached only past response.ok and response.json()
Completes(outcome) == outcome = "ok"

\* onLoadingChange(false) at the end of the try block instead of in finally.
ReportsOnSuccess(outcome) == IF outcome = "ok" THEN << FALSE >> ELSE << >>

\* finally { onLoadingChange(false) }
ReportsAfterSettle(outcome) == << FALSE >>

\* handleDetectionComplete, and what the render after it does to
\* ObjectDetectionResults: unmounted, mounted anew, or kept with a new image
DetectionComplete(r, img, n) ==
  /\ detectionResults' = [request |-> r, image |-> img, n |-> n]
  /\ originalImage' = img
  /\ IF n = 0
       THEN /\ imageDimensions' = NoSize
            /\ displayDimensions' = NoSize
            /\ loads' = {}
       ELSE IF ~Mounted
         THEN /\ imageDimensions' = NoSize
              /\ displayDimensions' = NoSize
              /\ loads' = { img }
         ELSE /\ UNCHANGED << imageDimensions, displayDimensions >>
              /\ loads' = IF img # originalImage THEN loads \cup { img } ELSE loads

\* detectObjects from its await on: the response or the rejection of request r
Settle(r, outcome, n) ==
  /\ ~effectPending
  /\ r \in 1..Len(requests)
  /\ requests[r].status = "pending"
  /\ outcome = "ok" \/ n = 0
  /\ hostEvent' = "settle"
  /\ IF Completes(outcome)
       THEN DetectionComplete(r, requests[r].image, n)
       ELSE UNCHANGED << detectionResults, originalImage, imageDimensions,
                         displayDimensions, loads >>
  /\ requests' = [requests EXCEPT ![r] =
                    [@ EXCEPT !.status = "settled",
                              !.outcome = outcome,
                              !.completions = IF Completes(outcome) THEN @ + 1 ELSE @,
                              !.reports = @ \o ReportsAfterSettle(outcome)]]
  /\ isLoading' = IF ReportsAfterSettle(outcome) = << >> THEN isLoading ELSE FALSE
  /\ UNCHANGED << selectedImage, effectPending >>
  /\ UNCHANGED << canvasVars, calc, observer, route >>

\* img.onload of an Image the load effect created
ImageLoaded(img) ==
  /\ ~effectPending
  /\ img \in loads
  /\ hostEvent' = "load"
  /\ imageDimensions' = ProcessedSize(img)
  /\ loads' = loads \ { img }
  /\ effectPending' = TRUE
  /\ UNCHANGED << selectedImage, requests, detectionResults, originalImage,
                  isLoading, displayDimensions >>
  /\ UNCHANGED << canvasVars, calc, observer, route >>

\* The effect on imageDimensions, after the render that shows them.
RecomputeDisplay ==
  /\ effectPending
  /\ hostEvent' = "display"
  /\ displayDimensions' =
       IF RLt(Zero, imageDimensions.width) /\ RLt(Zero, imageDimensions.height)
         THEN DisplaySize(imageDimensions)
         ELSE displayDimensions
  /\ effectPending' = FALSE
  /\ UNCHANGED << selectedImage, requests, detectionResults, originalImage,
                  isLoading, imageDimensions, loads >>
  /\ UNCHANGED << canvasVars, calc, observer, route >>

InitHome ==
  /\ Mount(CHOOSE props \in CanvasProps : props.threshold = 50, << >>)
  /\ calc = NoCalc
  /\ observer = << >>
  /\ HomeMount
  /\ route = NoRoute

NextHome ==
  \/ \E img \in ImageFiles : SelectFile(img)
  \/ RemoveImage
  \/ DetectObjects
  \/ \E r \in 1..MaxRequests : \E outcome \in Outcomes :
       \E n \in DetectionCounts : Settle(r, outcome, n)
  \/ \E img \in ImageFiles : ImageLoaded(img)
  \/ RecomputeDisplay

SpecHome == InitHome /\ [][NextHome]_vars

\* Every fetch settles, and every started effect runs.
SpecHomeFair ==
  /\ SpecHome
  /\ \A r \in 1..MaxRequests :
       WF_vars(\E outcome \in Outcomes : \E n \in DetectionCounts :
                 Settle(r, outcome, n))
  /\ WF_vars(RecomputeDisplay)

\* ----------------------------------------------------------------------
\* POST /api/detect: one invocation of the route handler
\* ----------------------------------------------------------------------

\* what request.formData() gives: a rejection, a form without image, a form
\* with an image
Forms == { "throws", "noimage", "image" }

\* the status of the upstream answer: OK, and two that are not
UpstreamStatuses == { 200, 404, 503 }

\* detections of the upstream, scores in percent around the limit of 0.3
UpstreamDetections ==
  { [label |-> l, score |-> sc] : l \in { "cat", "dog" }, sc \in { 20, 30, 31, 80 } }

RECURSIVE UpstreamListsOfLen(_)
UpstreamListsOfLen(n) ==
  IF n = 0 THEN { << >> }
  ELSE { Append(l, d) : l \in UpstreamListsOfLen(n - 1), d \in UpstreamDetections }

\* bodies of the upstream answer: arrays of detections, or "other" for a
\* body that is no JSON array or cannot be read
NoBody == [kind |-> "none", items |-> << >>]

UpstreamBodies ==
  { [kind |-> "array", items |-> l] :
      l \in UNION { UpstreamListsOfLen(n) : n \in 0..MaxUpstream } }
  \cup { [kind |-> "other", items |-> << >>] }

\* The limit taken as inclusive.
KeepsDetectionInclusive(d) == d.score >= 30

\* .filter((result) => result.score > 0.3)
KeepsDetection(d) == d.score > 30

\* NextResponse.json(body, { status }): the response leaves the handler
Respond(status, dets) ==
  [stage |-> "done",
   responses |-> Append(route.responses, [status |-> status, detections |-> dets])]

\* The request arrives: formData(), the image guard.
RouteRequest(form) ==
  /\ route.stage = "none"
  /\ route' =
       [form |-> form, timer |-> "none", upstream |-> Null, body |-> NoBody,
        error |-> "none", stage |-> "processing", responses |-> << >>]
  /\ UNCHANGED << canvasVars, calc, observer, hostVars >>

\* formData() has settled and, for a form with an image, sharp has resized
\* it (or failed); the timer is set and the upstream fetch made.
RouteProcess(sharpOk) ==
  /\ route.stage = "processing"
  /\ route' =
       IF route.form = "throws"
         THEN Respond(500, << >>) @@ [route EXCEPT !.error = "form"]
       ELSE IF route.form = "noimage"
         THEN Respond(400, << >>) @@ route
       ELSE IF ~sharpOk
         THEN Respond(500, << >>) @@ [route EXCEPT !.error = "sharp"]
       ELSE [route EXCEPT !.stage = "fetching", !.timer = "armed"]
  /\ UNCHANGED << canvasVars, calc, observer, hostVars >>

\* setTimeout(() => controller.abort(), 15000) fires: the fetch will reject
\* with an AbortError
RouteTimerFires ==
  /\ route.stage = "fetching"
  /\ route.timer = "armed"
  /\ route.error = "none"
  /\ route' = [route EXCEPT !.timer = "fired", !.error = "AbortError"]
  /\ UNCHANGED << canvasVars, calc, observer, hostVars >>

\* The network fails: the fetch will reject with another error.
RouteNetworkFails ==
  /\ route.stage = "fetching"
  /\ route.error = "none"
  /\ route' = [route EXCEPT !.error = "TypeError"]
  /\ UNCHANGED << canvasVars, calc, observer, hostVars >>

\* The fetch rejects: the inner catch block.
RouteFetchRejects ==
  /\ route.stage = "fetching"
  /\ route.error # "none"
  /\ route' =
       Respond(IF route.error = "AbortError" THEN 408 ELSE 500, << >>)
         @@ [route EXCEPT !.timer = "cleared"]
  /\ UNCHANGED << canvasVars, calc, observer, hostVars >>

\* The fetch resolves with the upstream answer: clearTimeout, then the body
\* is awaited.
RouteUpstreamAnswers(status, body) ==
  /\ route.stage = "fetching"
  /\ route.error = "none"
  /\ route' = [route EXCEPT !.stage = "body", !.timer = "cleared",
                             !.upstream = status, !.body = body]
  /\ UNCHANGED << canvasVars, calc, observer, hostVars >>

\* text() or json() of the upstream answer has settled.
RouteBodyRead ==
  /\ route.stage = "body"
  /\ route' =
       IF route.body.kind = "other"
         THEN \* text() or json() rejects, or .filter is no function: the
              \* inner catch throws it on, the outer catch answers
              Respond(500, << >>) @@ [route EXCEPT !.error = "body"]
       ELSE IF route.upstream # 200
         THEN Respond(route.upstream, << >>) @@ route
       ELSE Respond(200, SelectSeq(route.body.items, KeepsDetection)) @@ route
  /\ UNCHANGED << canvasVars, calc, observer, hostVars >>

InitRoute ==
  /\ Mount(CHOOSE props \in CanvasProps : props.threshold = 50, << >>)
  /\ calc = NoCalc
  /\ observer = << >>
  /\ HomeMount
  /\ route = NoRoute

NextRoute ==
  \/ \E form \in Forms : RouteRequest(form)
  \/ \E sharpOk \in BOOLEAN : RouteProcess(sharpOk)
  \/ RouteTimerFires
  \/ RouteNetworkFails
  \/ RouteFetchRejects
  \/ \E status \in UpstreamStatuses : \E body \in UpstreamBodies :
       RouteUpstreamAnswers(status, body)
  \/ RouteBodyRead

SpecRoute == InitRoute /\ [][NextRoute]_vars

\* ----------------------------------------------------------------------
\* Properties
\* ----------------------------------------------------------------------

\* The display box of one detection, as scaleDetections gives it.
ScaledBox(det) ==
  At(scaleDetections(<< det >>, naturalWidth, naturalHeight,
                     displayWidth, displayHeight), 0).box

BoxWidth(box) == RSub(box.xmax, box.xmin)
BoxHeight(box) == RSub(box.ymax, box.ymin)

InDisplay(box) ==
  /\ RLe(Zero, box.xmin) /\ RLe(box.xmin, box.xmax) /\ RLe(box.xmax, displayWidth)
  /\ RLe(Zero, box.ymin) /\ RLe(box.ymin, box.ymax) /\ RLe(box.ymax, displayHeight)

\* The 0-based indices of the visible scaled boxes that contain the pointer.
VisibleAt(dets, p) ==
  LET vis == HitScaled(dets)
  IN  { i \in 0 .. (Len(vis) - 1) : Contains(At(vis, i).box, p.x, p.y) }

MaxOf(S) == CHOOSE i \in S : \A j \in S : j <= i

\* C1: every pointer-move while Dragging leaves the display-space width and
\* height of the dragged box as they were before the move, wherever the
\* pointer is.
C1_DragPreservesSize ==
  [][ (event' = "mousemove" /\ movedIndex' # Null) =>
        LET before == ScaledBox(At(localDetections, movedIndex'))
            after == ScaledBox(At(localDetections', movedIndex'))
        IN  /\ BoxWidth(after) = BoxWidth(before)
            /\ BoxHeight(after) = BoxHeight(before) ]_vars

\* C2: whatever the pointer events and positions, the display box computed
\* for the dragged detection has 0 <= xmin <= xmax <= displayWidth and
\* 0 <= ymin <= ymax <= displayHeight.
C2_DragStaysInCanvas ==
  \A i \in 1 .. Len(newBox) :
    /\ InDisplay(newBox[i])
    /\ movedIndex # Null
    /\ InDisplay(ScaledBox(At(localDetections, movedIndex)))

\* A drag move with the pointer left of and above the canvas.
C2_Witness ==
  /\ event = "mousemove"
  /\ newBox # << >>
  /\ RLt(mousePos.x, Zero)
  /\ RLt(mousePos.y, Zero)

\* C3: hit-testing returns the highest index among the visible scaled boxes
\* that contain the pointer (edges inclusive), and no box exactly when none
\* contains it.
C3_HitTopmost ==
  event = "mousedown" =>
    LET S == VisibleAt(localDetections, mousePos)
    IN  boxIndex = (IF S = {} THEN Null ELSE MaxOf(S))

\* A pointer-down on a point that two visible boxes contain.
C3_Witness ==
  /\ event = "mousedown"
  /\ Cardinality(VisibleAt(localDetections, mousePos)) >= 2
  /\ boxIndex = 1

Ids(seq) == [i \in 1 .. Len(seq) |-> seq[i].id]

\* C4: a detection is drawn if and only if hit-testing considers it if and
\* only if its score is at least the threshold; a detection below the
\* threshold is never drawn, never hit and never moved by a drag.
C4_FilterUniform ==
  /\ Ids(painted) = Ids(HitScaled(localDetections))
  /\ Ids(painted) = Ids(SelectSeq(localDetections,
                                  LAMBDA d : ~(d.score < scoreThreshold)))
  /\ (event = "mousedown" /\ boxIndex # Null) =>
       \E i \in 1 .. Len(localDetections) :
         /\ localDetections[i].id = grabbed
         /\ ~(localDetections[i].score < scoreThreshold)
         /\ Contains(ScaledBox(localDetections[i]), mousePos.x, mousePos.y)
  /\ movedIndex # Null =>
       ~(At(localDetections, movedIndex).score < scoreThreshold)

\* A pointer-down inside the box of a detection below the threshold and in
\* no visible box: nothing is hit, and the list also holds a drawn detection.
C4_Witness ==
  /\ event = "mousedown"
  /\ boxIndex = Null
  /\ painted # << >>
  /\ \E i \in 1 .. Len(localDetections) :
       /\ localDetections[i].score < scoreThreshold
       /\ Contains(ScaledBox(localDetections[i]), mousePos.x, mousePos.y)

\* C5: from Idle, a pointer-down inside a visible box enters Dragging with
\* that box's index and offset = pointer minus the box's display top-left;
\* a pointer-down in no visible box leaves the canvas Idle and the drag
\* session as it was.  Pointer-down never changes the detection list.
C5_PointerDown ==
  [][ event' = "mousedown" =>
        /\ localDetections' = localDetections
        /\ draggedBox = Null =>
             LET S == VisibleAt(localDetections, mousePos')
             IN  IF S # {}
                   THEN /\ draggedBox' \in S
                        /\ LET box == At(HitScaled(localDetections), draggedBox').box
                           IN  /\ RAdd(dragOffset'.x, box.xmin) = mousePos'.x
                               /\ RAdd(dragOffset'.y, box.ymin) = mousePos'.y
                   ELSE /\ draggedBox' = Null
                        /\ dragOffset' = dragOffset ]_vars

\* A drag opened on a box whose filtered index is not its list index, the
\* pointer strictly inside the box.
C5_Witness ==
  /\ event = "mousedown"
  /\ draggedBox # Null
  /\ dragOffset.x # Zero
  /\ \E i \in 1 .. Len(localDetections) :
       localDetections[i].id = grabbed /\ i - 1 # draggedBox

\* C6: pointer-up and pointer-leave each end the drag (index cleared, offset
\* (0,0)) and leave the detection list as the last pointer-move left it; the
\* canvas leaves Dragging by these two events only, never by a pointer-move.
C6_Release ==
  [][ /\ event' \in {"mouseup", "mouseleave"} =>
           /\ draggedBox' = Null
           /\ dragOffset' = Origin
           /\ localDetections' = localDetections
      /\ (draggedBox # Null /\ draggedBox' = Null) =>
           event' \in {"mouseup", "mouseleave"}
      /\ (draggedBox # Null /\ event' = "mousemove") =>
           draggedBox' = draggedBox ]_vars

\* The pointer has left the canvas after a drag that moved a box.
C6_Witness ==
  /\ event = "mouseleave"
  /\ draggedBox = Null
  /\ localDetections # detections

\* C7: onDetectionUpdate is called exactly once for every pointer-move
\* received while Dragging, with the full updated list, and never by
\* pointer-down, pointer-up, pointer-leave or a pointer-move while Idle.
C7_NotifiesEveryDragMove ==
  [][ /\ (event' = "mousemove" /\ draggedBox # Null) =>
           /\ updates' = << localDetections' >>
           /\ Ids(localDetections') = Ids(localDetections)
      /\ (event' = "mousemove" /\ draggedBox = Null) => updates' = << >>
      /\ event' \in {"mousedown", "mouseup", "mouseleave"} => updates' = << >> ]_vars

\* C8: a pointer-move while Dragging changes only the box of the dragged
\* detection (same length and order, every label and score, every other
\* box); a pointer-move while Idle changes nothing.
C8_MoveFrame ==
  [][ event' = "mousemove" =>
        /\ Len(localDetections') = Len(localDetections)
        /\ \A i \in 1 .. Len(localDetections) :
             /\ localDetections'[i].id = localDetections[i].id
             /\ localDetections'[i].label = localDetections[i].label
             /\ localDetections'[i].score = localDetections[i].score
             /\ i - 1 # movedIndex' => localDetections'[i] = localDetections[i]
        /\ movedIndex' # Null =>
             /\ draggedBox # Null
             /\ At(localDetections, movedIndex').score >= scoreThreshold
             /\ Cardinality({ j \in 1 .. movedIndex' :
                                localDetections[j].score >= scoreThreshold })
                  = draggedBox
        /\ draggedBox = Null =>
             /\ movedIndex' = Null
             /\ UNCHANGED << localDetections, draggedBox, dragOffset, detections >> ]_vars

\* A drag move in a list that holds a detection below the threshold.
C8_Witness ==
  /\ event = "mousemove"
  /\ movedIndex # Null
  /\ localDetections # detections
  /\ \E i \in 1 .. Len(localDetections) :
       localDetections[i].score < scoreThreshold

\* C9: while the list is not replaced during a drag session, the entry a
\* pointer-move replaces is the entry hit-testing selected at pointer-down,
\* also when detections below the threshold precede it.
C9_MovesGrabbedEntry ==
  (movedIndex # Null /\ grabbed # Null) =>
    At(localDetections, movedIndex).id = grabbed

\* A drag move of an entry whose list index is not its filtered index.
C9_Witness ==
  /\ event = "mousemove"
  /\ movedIndex # Null
  /\ grabbed # Null
  /\ movedIndex # draggedBox

\* C10: for every box (inverted, negative or out-of-range edges included)
\* and every w >= 0 and h >= 0, clampBox returns a box with
\* 0 <= xmin <= xmax <= w and 0 <= ymin <= ymax <= h.
C10_ClampWellFormed ==
  (calc.fn = "clampBox" /\ calc.result # << >>) =>
    LET b == calc.result[1]
    IN  /\ RLe(Zero, b.xmin) /\ RLe(b.xmin, b.xmax) /\ RLe(b.xmax, calc.args.w)
        /\ RLe(Zero, b.ymin) /\ RLe(b.ymin, b.ymax) /\ RLe(b.ymax, calc.args.h)

\* clampBox has returned for a box with inverted x edges, a negative edge
\* and an edge beyond the width.
C10_Witness ==
  /\ calc.fn = "clampBox"
  /\ calc.result # << >>
  /\ RLt(calc.args.box.xmax, calc.args.box.xmin)
  /\ RLt(calc.args.box.ymin, Zero)
  /\ RLt(calc.args.w, calc.args.box.xmin)

\* C11: clampBox is idempotent: clamping the clamped box again with the same
\* width and height gives the clamped box.
C11_ClampIdempotent ==
  (calc.fn = "clampBox" /\ Len(calc.result) = 2) =>
    calc.result[2] = calc.result[1]

\* clampBox has been applied twice to a box that its first application
\* changed in both ways (an edge clamped, an axis re-ordered).
C11_Witness ==
  /\ calc.fn = "clampBox"
  /\ Len(calc.result) = 2
  /\ calc.result[1] # calc.args.box
  /\ RLt(calc.args.box.xmax, calc.args.box.xmin)
  /\ RLt(calc.args.w, calc.args.box.xmin)

\* C12: scaleDetections neither reorders nor drops detections: the output is
\* as long as the input and, at every index, has the input's label and score
\* (and every other field but the box).
C12_ScaleKeepsOrder ==
  (calc.fn = "scaleDetections" /\ Len(calc.result) >= 1) =>
    LET in == calc.args.dets
        out == calc.result[1]
    IN  /\ Len(out) = Len(in)
        /\ \A i \in 1..Len(in) :
             /\ out[i].label = in[i].label
             /\ out[i].score = in[i].score
             /\ out[i].id = in[i].id

\* A list of two detections with different labels and scores has been scaled
\* and its boxes have changed.
C12_Witness ==
  /\ calc.fn = "scaleDetections"
  /\ Len(calc.result) >= 1
  /\ Len(calc.args.dets) = 2
  /\ calc.args.dets[1].label # calc.args.dets[2].label
  /\ calc.args.dets[1].score # calc.args.dets[2].score
  /\ calc.result[1][1].box # calc.args.dets[1].box

\* C13: the box scaleDetections returns is the input box clamped to the
\* natural dimensions with its x-edges times displayW/naturalW and its
\* y-edges times displayH/naturalH (stated without the division: out * natural
\* = clamped * display); natural 1000x800 at display 500x400 takes the box
\* {100,100,300,300} to {50,50,150,150}.
C13_ScaledBox ==
  (calc.fn = "scaleDetections" /\ Len(calc.result) >= 1) =>
    LET a == calc.args
        out == calc.result[1]
    IN  /\ \A i \in 1..Len(a.dets) :
             LET b == clampBox(a.dets[i].box, a.nw, a.nh)
             IN  /\ RMul(out[i].box.xmin, a.nw) = RMul(b.xmin, a.dw)
                 /\ RMul(out[i].box.xmax, a.nw) = RMul(b.xmax, a.dw)
                 /\ RMul(out[i].box.ymin, a.nh) = RMul(b.ymin, a.dh)
                 /\ RMul(out[i].box.ymax, a.nh) = RMul(b.ymax, a.dh)
        /\ (a.dets = ScenarioDetections /\ a.nw = ScenarioProps.nw) =>
             out[1].box = Box(50, 50, 150, 150)

\* The 1000x800 scenario has been scaled.
C13_Witness ==
  /\ calc.fn = "scaleDetections"
  /\ Len(calc.result) >= 1
  /\ calc.args.dets = ScenarioDetections
  /\ calc.args.nw = ScenarioProps.nw
  /\ calc.args.dh = ScenarioProps.dh

C15_NewListReplacesCopy ==
  event = "detections" => localDetections = detections

\* A new list has replaced a local copy that a drag had changed.
C15_Witness ==
  /\ event = "detections"
  /\ droppedEdits
  /\ localDetections = detections

\* C18: a pointer-move while Dragging whose target top-left (pointer minus
\* drag offset) keeps the box inside the canvas puts the display top-left of
\* the dragged detection at that target; a move to the very position of the
\* pointer-down that grabbed the box leaves its display box where it was.
C18_TopLeftFollowsPointer ==
  [][ (event' = "mousemove" /\ movedIndex' # Null) =>
        LET before == ScaledBox(At(localDetections, movedIndex'))
            after == ScaledBox(At(localDetections', movedIndex'))
            tx == RSub(mousePos'.x, dragOffset.x)
            ty == RSub(mousePos'.y, dragOffset.y)
        IN  /\ ( /\ RLe(Zero, tx)
                 /\ RLe(RAdd(tx, BoxWidth(before)), displayWidth)
                 /\ RLe(Zero, ty)
                 /\ RLe(RAdd(ty, BoxHeight(before)), displayHeight) ) =>
                 (after.xmin = tx /\ after.ymin = ty)
            /\ ( /\ event = "mousedown"
                 /\ boxIndex # Null
                 /\ mousePos' = mousePos ) => after = before ]_vars

\* A drag move has taken a box to a target inside the canvas that is not
\* where the list supplied by the parent has it.
C18_Witness ==
  /\ event = "mousemove"
  /\ movedIndex # Null
  /\ localDetections # detections
  /\ LET box == ScaledBox(At(localDetections, movedIndex))
     IN  /\ box.xmin = RSub(mousePos.x, dragOffset.x)
         /\ box.ymin = RSub(mousePos.y, dragOffset.y)
         /\ RLt(box.xmin, box.xmax)
         /\ RLe(box.xmax, displayWidth)

\* C19: after every drag move the natural box stored for the moved
\* detection, in the local copy and in the list handed to onDetectionUpdate,
\* has 0 <= xmin <= xmax <= naturalWidth and 0 <= ymin <= ymax <= naturalHeight.
C19_StoredBoxInNaturalRange ==
  (event = "mousemove" /\ movedIndex # Null) =>
    \A list \in { localDetections } \cup { updates[i] : i \in 1 .. Len(updates) } :
      LET box == At(list, movedIndex).box
      IN  /\ RLe(Zero, box.xmin) /\ RLe(box.xmin, box.xmax)
          /\ RLe(box.xmax, naturalWidth)
          /\ RLe(Zero, box.ymin) /\ RLe(box.ymin, box.ymax)
          /\ RLe(box.ymax, naturalHeight)

\* A drag move with the pointer beyond the right and bottom edges of a canvas
\* whose two axes have different factors.
C19_Witness ==
  /\ event = "mousemove"
  /\ movedIndex # Null
  /\ updates # << >>
  /\ naturalWidth # naturalHeight
  /\ RLt(displayWidth, mousePos.x)
  /\ RLt(displayHeight, mousePos.y)

\* C16: in the composition Home -> ObjectDetectionResults -> DetectionsCanvas
\* a committed drag position stays until a new detection result arrives: a
\* render of the host that carries no new result leaves the local copy as it
\* is.
C16_RerenderKeepsPositions ==
  [][ (event' = "rerender" /\ draggedBox = Null) =>
        localDetections' = localDetections ]_vars

\* C17: the redraw a resize triggers paints the current local list with the
\* current drag state.
C17_ResizePaintsCurrent ==
  event = "resize" => painted = draw(localDetections, draggedBox)

\* C20: in every variant of the canvas and for every drawn detection, the
\* y-position of the label pill is not negative.
C20_PillNeverAboveTop ==
  (calc.fn = "draw" /\ calc.result # << >>) =>
    \A i \in 1 .. Len(calc.result[1]) : RLe(Zero, calc.result[1][i])

\* C21: the colour of a label is a function of its text alone, and for every
\* label, also one whose hash leaves the 32-bit range or is negative, its hue
\* is an integer in 0..359, its saturation 90% and its lightness 45%.
C21_HueInRange ==
  (calc.fn = "colorForLabel" /\ calc.result # << >>) =>
    /\ calc.result[1].hue \in 0..359
    /\ calc.result[1].saturation = 90
    /\ calc.result[1].lightness = 45

\* The colour of a label whose hash is negative and below -2^31.
C21_Witness ==
  /\ calc.fn = "colorForLabel"
  /\ calc.result # << >>
  /\ HashOf(calc.args.label).hi < -(Limb \div 2)
  /\ calc.result[1].hue > 0

\* C23: for every natural size with positive width and height the display
\* size has width <= 1000, height <= 750, width <= natural width, and
\* display height * natural width = display width * natural height.
C23_DisplaySize ==
  (calc.fn = "displaySize" /\ calc.result # << >>) =>
    LET natural == calc.args
        display == calc.result[1]
    IN  /\ RLe(display.width, R(1000))
        /\ RLe(display.height, R(750))
        /\ RLe(display.width, natural.width)
        /\ RMul(display.height, natural.width)
             = RMul(display.width, natural.height)

\* The display size of an image wider than 1000 whose height at width 1000
\* is more than 750.
C23_Witness ==
  /\ calc.fn = "displaySize"
  /\ calc.result # << >>
  /\ RLt(R(1000), calc.args.width)
  /\ RLt(R(750), RDiv(RMul(R(1000), calc.args.height), calc.args.width))
  /\ calc.result[1].height = R(750)
  /\ RLt(calc.result[1].width, R(1000))

\* C24: a pointer-move moves only a detection that the pointer-down of the
\* current drag session hit, also when the list is replaced between the
\* pointer-down and the move.
C24_MovesOnlyGrabbed ==
  movedIndex # Null =>
    /\ grabbed # Null
    /\ At(localDetections, movedIndex).id = grabbed

\* C22: in every state in which ObjectDetectionResults renders the canvas,
\* the natural and display width and height it passes are all strictly
\* positive.
C22_CanvasDimensionsPositive ==
  RendersCanvas =>
    /\ RLt(Zero, imageDimensions.width)
    /\ RLt(Zero, imageDimensions.height)
    /\ RLt(Zero, displayDimensions.width)
    /\ RLt(Zero, displayDimensions.height)

\* The canvas is rendered with the results of a later request than the
\* first one that was answered.
C22_Witness ==
  /\ RendersCanvas
  /\ detectionResults.request > 1
  /\ \E r \in 1 .. Len(requests) :
       requests[r].outcome = "ok" /\ r # detectionResults.request

\* C25: in every state in which the canvas is rendered, the natural and
\* display dimensions passed to it are those of the image shown, the image
\* of the current detection list.
C25_DimensionsOfShownImage ==
  RendersCanvas =>
    /\ detectionResults.image = originalImage
    /\ imageDimensions = ProcessedSize(originalImage)
    /\ displayDimensions = DisplaySize(ProcessedSize(originalImage))

\* C26: every detectObjects call that reports loading = true is eventually
\* followed by its report of loading = false, however the request ends, and
\* a call without a selected image reports nothing.
C26_LoadingEventuallyCleared ==
  /\ \A r \in 1 .. MaxRequests :
       (Len(requests) >= r /\ requests[r].reports = << TRUE >>)
         ~> (Len(requests) >= r /\ requests[r].reports = << TRUE, FALSE >>)
  /\ [][ hostEvent' = "alert" =>
           (selectedImage = Null /\ UNCHANGED << requests, isLoading >>) ]_vars

\* A request that did not end with an OK response has reported true and
\* then false.
C26_Witness ==
  \E r \in 1 .. Len(requests) :
    /\ requests[r].outcome \in { "notok", "throw" }
    /\ requests[r].reports = << TRUE, FALSE >>

\* C27: whenever a detection request is in flight, the loading flag of the
\* page is true.
C27_LoadingWhileInFlight ==
  (\E r \in 1 .. Len(requests) : requests[r].status = "pending") => isLoading

\* C28: when all overlapping requests have completed, the results and the
\* image shown are those of the request started last, and both come from
\* the same response.
C28_LatestRequestWins ==
  /\ detectionResults.image = originalImage
  /\ ( /\ requests # << >>
       /\ \A r \in 1 .. Len(requests) : requests[r].status = "settled"
       /\ requests[Len(requests)].outcome = "ok" ) =>
       detectionResults.request = Len(requests)

\* C29: a request that fails (non-OK response, rejected fetch, body that
\* does not parse) never calls onDetectionComplete and leaves the results
\* and the image shown as they were; a request calls onDetectionComplete at
\* most once, and only after an OK response.
C29_FailureKeepsResults ==
  [][ \A r \in 1 .. Len(requests') :
        LET q == requests'[r]
        IN  /\ q.completions <= 1
            /\ q.completions = 1 => q.outcome = "ok"
            /\ ( /\ r <= Len(requests)
                 /\ requests[r].status = "pending"
                 /\ q.status = "settled"
                 /\ q.outcome # "ok" ) =>
                 /\ q.completions = 0
                 /\ UNCHANGED << detectionResults, originalImage >> ]_vars

\* A request has failed on its body while the results of an earlier request
\* are shown.
C29_Witness ==
  /\ hostEvent = "settle"
  /\ detectionResults.n > 0
  /\ \E r \in 1 .. Len(requests) :
       /\ requests[r].outcome = "badbody"
       /\ r > detectionResults.request

\* C30: the route answers every request once: 400 for a form without image,
\* the upstream's status when the upstream answers non-OK, 408 when the
\* abort timer fires before the upstream answers, 500 for every other
\* failure, and success only after an OK upstream answer, with exactly the
\* upstream detections of score > 0.3 in their order; once the upstream call
\* has settled the abort timer is cleared.
C30_RouteResponses ==
  route.stage # "none" =>
    /\ Len(route.responses) <= 1
    /\ (route.stage = "done") = (Len(route.responses) = 1)
    /\ route.stage \in { "body", "done" } => route.timer \in { "none", "cleared" }
    /\ route.timer = "none" => route.upstream = Null
    /\ route.stage = "done" =>
         LET response == route.responses[1]
             sent == route.body.items
             kept == { i \in 1 .. Len(sent) : sent[i].score > 30 }
         IN  /\ response.status =
                  (IF route.form = "noimage" THEN 400
                   ELSE IF route.error = "AbortError" THEN 408
                   ELSE IF route.error # "none" THEN 500
                   ELSE route.upstream)
             /\ response.status = 200 =>
                  /\ route.upstream = 200
                  /\ Len(response.detections) = Cardinality(kept)
                  /\ \A k \in 1 .. Len(response.detections) :
                       \E i \in kept :
                         /\ response.detections[k] = sent[i]
                         /\ Cardinality({ j \in kept : j < i }) = k - 1
             /\ response.status # 200 => response.detections = << >>

\* A success response that dropped a detection of score 0.3 and kept one of
\* higher score.
C30_Witness ==
  /\ route.stage = "done"
  /\ route.responses[1].status = 200
  /\ Len(route.body.items) = 2
  /\ Len(route.responses[1].detections) = 1
  /\ \E i \in 1 .. 2 : route.body.items[i].score = 30

=============================================================================
